---- MODULE Spec2Model ----
(***************************************************************************)
(* Kimikuri: the registration registry (KuriDatabase), the token issuer    *)
(* (TokenManager), the background database save loop and the /register     *)
(* command handler, as one state machine.  Every step is one atomic        *)
(* operation of the CPython interpreter (one dictionary read or write, one *)
(* attribute assignment, one lock acquisition), so that every interleaving *)
(* of the server's threads is a behaviour of the model.                    *)
(***************************************************************************)
EXTENDS Integers, Sequences, FiniteSets, TLC

\* ------------------------------------------------------------------ bounds

\* Number of calls (register, /register, lookups) the worker threads make.
MaxCalls == 2

\* Number of records in a database file that was not written by this model's runs.
MaxRecords == 2

\* the longest command line given to the client script
MaxArgs == 6

\* how many messages a program sends with one client
MaxSends == 1

\* ------------------------------------------------------------------ values

Workers == {"w1", "w2"}     \* dispatcher / web API threads
Saver == "saver"            \* DatabaseSaveThread
Free == "free"              \* a Lock nobody holds

Users == {1, 2}             \* Telegram user ids
Tokens == {"ta", "tb", "tc"}\* what base58(os.urandom(n)) can return
Chats == {7, 8}             \* Telegram chat ids

\* Python's None; `not x` is true of it
NoId == 0
NoToken == ""
None == [cls |-> "NoneType", user_id |-> NoId, token |-> NoToken, chat_id |-> NoId]

\* UserDict.__init__ : the object built when all three arguments are truthy
UserDictValid(user_id, token, chat_id) ==
    user_id # NoId /\ token # NoToken /\ chat_id # NoId

UserDict(user_id, token, chat_id) ==
    [cls |-> "UserDict", user_id |-> user_id, token |-> token, chat_id |-> chat_id]

\* isinstance(x, UserDict)
IsUserDict(x) == x.cls = "UserDict"

\* UserDict.to_dict : the JSON object of a record
ToDict(user) == [user_id |-> user.user_id, token |-> user.token, chat_id |-> user.chat_id]

\* from_dict as it would be if it read the chat id from the wrong key
FromDictReadsWrongKey(d) == UserDict(d.user_id, d.token, d.user_id)

\* UserDict.from_dict
FromDict(d) == UserDict(d.user_id, d.token, d.chat_id)

\* ------------------------------------------------------------------ dicts
\* A Python dict whose values are UserDict objects, in insertion order.  The
\* key of every entry is a field of its value (token or user_id).

Range(s) == {s[i] : i \in 1..Len(s)}

\* __users_by_token.get(token)
GetByToken(d, token) ==
    IF \E i \in 1..Len(d) : d[i].token = token
    THEN d[CHOOSE i \in 1..Len(d) : d[i].token = token]
    ELSE None

\* __users_by_user_id.get(user_id)
GetByUserId(d, user_id) ==
    IF \E i \in 1..Len(d) : d[i].user_id = user_id
    THEN d[CHOOSE i \in 1..Len(d) : d[i].user_id = user_id]
    ELSE None

\* __users_by_token[user.token] = user
PutByToken(d, user) ==
    IF \E i \in 1..Len(d) : d[i].token = user.token
    THEN [i \in 1..Len(d) |-> IF d[i].token = user.token THEN user ELSE d[i]]
    ELSE Append(d, user)

\* __users_by_user_id[user.user_id] = user
PutByUserId(d, user) ==
    IF \E i \in 1..Len(d) : d[i].user_id = user.user_id
    THEN [i \in 1..Len(d) |-> IF d[i].user_id = user.user_id THEN user ELSE d[i]]
    ELSE Append(d, user)

\* KuriDatabase.from_file : the two dicts after the loop over the JSON list
RECURSIVE LoadRecords(_, _, _)
LoadRecords(j, bt, bu) ==
    IF j = <<>>
    THEN [by_token |-> bt, by_user_id |-> bu]
    ELSE LET user == FromDict(Head(j))
         IN  LoadRecords(Tail(j), PutByToken(bt, user), PutByUserId(bu, user))

FromFile(j) == LoadRecords(j, <<>>, <<>>)

\* [x.to_dict() for x in self.__users_by_token.values()]
ToFileList(by_token) == [i \in 1..Len(by_token) |-> ToDict(by_token[i])]

Bool(b) == IF b THEN "True" ELSE "False"

\* is_user_registered as it would be if, given both, it looked at the user id alone
IsUserRegisteredIgnoresToken(by_token, by_user_id, user_id, token) ==
    IF user_id = NoId /\ token = NoToken THEN "ValueError"
    ELSE IF user_id # NoId
         THEN Bool(IsUserDict(GetByUserId(by_user_id, user_id)))
    ELSE Bool(IsUserDict(GetByToken(by_token, token)))

\* KuriDatabase.is_user_registered, lines 83-91: "ValueError", "True" or "False"
IsUserRegistered(by_token, by_user_id, user_id, token) ==
    IF user_id = NoId /\ token = NoToken THEN "ValueError"
    ELSE IF user_id # NoId /\ token # NoToken
         THEN LET user_dict == GetByUserId(by_user_id, user_id)
              IN  Bool(IsUserDict(user_dict) /\ user_dict.token = token)
    ELSE IF user_id # NoId
         THEN Bool(IsUserDict(GetByUserId(by_user_id, user_id)))
    ELSE Bool(IsUserDict(GetByToken(by_token, token)))

\* KuriDatabase.get_user, with a selector given: a copy of the record, or None
GetUser(by_token, by_user_id, user_id, token) ==
    LET d == IF user_id # NoId THEN GetByUserId(by_user_id, user_id)
             ELSE GetByToken(by_token, token)
    IN  IF IsUserDict(d) THEN FromDict(ToDict(d)) ELSE None

\* texts to relay
Messages == {"hi", "yo"}

\* ------------------------------------------------------------------ state

VARIABLES
    users_by_token,          \* KuriDatabase.__users_by_token
    users_by_user_id,        \* KuriDatabase.__users_by_user_id
    dirty,                   \* KuriDatabase.__dirty
    lock_user_structure,     \* holder of KuriDatabase.__lock_user_structure
    lock_is_user_registered, \* holder of KuriDatabase.__lock_is_user_registered
    lock_register,           \* holder of KuriDatabase.__lock_register
    present_tokens,          \* TokenManager.__present_tokens
    token_generating_lock,   \* holder of TokenManager.__token_generating_lock
    kimikuri_running,        \* the flag the save loop tests
    interrupt_event,         \* __save_database_loop_interrupt_event
    main_pc,                 \* the main thread: serving, inside stop(), exited
    db_file,                 \* USER_DB_FILE on disk
    boot_file,               \* USER_DB_FILE as it was when the process started
    saver_pc,                \* position of DatabaseSaveThread
    saver_l,                 \* the list `l` of to_file
    flush_after_stop,        \* a flush was started after stop() cleared the flag
    pc,                      \* position of each worker thread
    cur,                     \* index in calls of the call a worker is running
    calls,                   \* every call made so far, with its outcome
    cli,                     \* kuriclient.py run as a script: its module-level variables
    client,                  \* the KimikuriClient instance that was constructed
    requests_get             \* the calls of requests.get made by send_message

dbVars == <<users_by_token, users_by_user_id, dirty>>
lockVars == <<lock_user_structure, lock_is_user_registered, lock_register>>
tmVars == <<present_tokens, token_generating_lock>>
mainVars == <<kimikuri_running, interrupt_event, main_pc>>
saverVars == <<saver_pc, saver_l, flush_after_stop>>
workerVars == <<pc, cur, calls>>
clientVars == <<cli, client, requests_get>>
vars == <<dbVars, lockVars, tmVars, mainVars, db_file, boot_file, saverVars, workerVars,
          clientVars>>

\* ------------------------------------------------------------------ kuriclient.py
\* A Python string is the sequence of its characters; a parameter that may be
\* None is a value with its class.

NoStr == [cls |-> "NoneType", str |-> <<>>]
Str(s) == [cls |-> "str", str |-> s]

\* the literals of kuriclient.py
HttpPrefix == <<"h", "t", "t", "p", ":", "/", "/">>
OfficialApiRoot ==
    <<"h", "t", "t", "p", "s", ":", "/", "/", "k", "i", "m", "i", "k", "u", "r", "i", ".",
      "k", "e", "u", "i", "n", ".", "c", "c", "/", "a", "p", "i", "/">>
MessagePath == <<"m", "e", "s", "s", "a", "g", "e">>
SwitchApiRoot == <<"-", "-", "a", "p", "i", "-", "r", "o", "o", "t">>
SwitchToken == <<"-", "-", "t", "o", "k", "e", "n">>
SwitchMessage == <<"-", "-", "m", "e", "s", "s", "a", "g", "e">>

\* str.endswith('/')
EndsWithSlash(s) == Len(s) > 0 /\ s[Len(s)] = "/"

\* no KimikuriClient has been constructed
NoClient == [cls |-> "NoneType", api_root |-> <<>>, token |-> <<>>, given |-> NoStr]

\* KimikuriClient.__init__(token, api_root): the instance, or the AttributeError
\* of None.endswith.  given: the api_root argument of the call.
KimikuriClientInit(token, api_root) ==
    IF api_root.cls = "NoneType"
    THEN [cls |-> "AttributeError", api_root |-> <<>>, token |-> <<>>, given |-> api_root]
    ELSE LET with_slash == IF EndsWithSlash(api_root.str) THEN api_root.str
                           ELSE api_root.str \o <<"/">>
         IN  [cls |-> "KimikuriClient",
              api_root |-> IF Len(with_slash) > Len(HttpPrefix) THEN with_slash
                           ELSE OfficialApiRoot,
              token |-> token, given |-> api_root]

\* what the server can answer to GET <api_root>message
Responses ==
    {[status_code |-> 200, json |-> "success"], [status_code |-> 200, json |-> "failure"],
     [status_code |-> 200, json |-> "not json"], [status_code |-> 500, json |-> "not json"]}

\* send_message: True only for status 200 and a JSON body with success true
SendMessageResult(r) == r.status_code = 200 /\ r.json = "success"

\* the requests.get call of send_message
Request(c, message) ==
    [url |-> c.api_root \o MessagePath, token |-> c.token, message |-> message]

\* the module-level variables of the script when it starts on sys.argv[1:] = args
CliStart(args) ==
    [pc |-> "for", args |-> args, i |-> 0, api_root |-> <<>>, token |-> <<>>,
     message |-> <<>>, valid |-> TRUE, is_switch |-> TRUE, printed |-> "", exit |-> 0]

\* the script is not running
CliOff == [CliStart(<<>>) EXCEPT !.pc = "off"]

\* kuriclient imported by a program (__name__ is not '__main__')
CliImported == [CliStart(<<>>) EXCEPT !.pc = "imported"]

\* USER_DB_FILE: absent, holding a complete JSON list, or holding part of one
\* (just opened for writing, or a dump that failed partway)
AbsentFile == [kind |-> "absent", data |-> <<>>]
JsonFile(l) == [kind |-> "json", data |-> l]
PartialFile == [kind |-> "partial", data |-> <<>>]

\* The files a previous run of the server can have left behind.
BootFiles == {AbsentFile, JsonFile(<<ToDict(UserDict(1, "ta", 7))>>)}

\* kimikuri.py, "initialize database": from_file if the file exists, else empty
BootDatabase(f) ==
    IF f.kind = "json" THEN FromFile(f.data) ELSE FromFile(<<>>)

\* kuri/token_manager.py TokenManager.__init__ : seeded from database.get_users()
TokenManagerInit(by_token) == [i \in 1..Len(by_token) |-> by_token[i].token]

\* token_manager.py (the 0.3.0 server) TokenManager.__init__ : `[]  # TODO: load from db`
LegacyTokenManagerInit(by_token) == <<>>

Init ==
    /\ boot_file \in BootFiles
    /\ db_file = boot_file
    /\ users_by_token = BootDatabase(boot_file).by_token
    /\ users_by_user_id = BootDatabase(boot_file).by_user_id
    /\ dirty = FALSE
    /\ lock_user_structure = Free
    /\ lock_is_user_registered = Free
    /\ lock_register = Free
    /\ present_tokens \in {TokenManagerInit(users_by_token),
                           LegacyTokenManagerInit(users_by_token)}
    /\ token_generating_lock = Free
    /\ kimikuri_running = TRUE
    /\ interrupt_event = FALSE
    /\ main_pc = "serving"
    /\ saver_pc = "while"
    /\ saver_l = <<>>
    /\ flush_after_stop = FALSE
    /\ pc = [t \in Workers |-> "idle"]
    /\ cur = [t \in Workers |-> 0]
    /\ calls = <<>>
    /\ cli = CliOff
    /\ client = NoClient
    /\ requests_get = <<>>

\* The JSON lists of up to MaxRecords well-formed records: what USER_DB_FILE
\* can hold when it was edited by hand or merged from two files.
FileRecords == {ToDict(UserDict(u, k, c)) : u \in Users, k \in Tokens, c \in Chats}

RECURSIVE ListsOf(_, _)
ListsOf(S, n) ==
    IF n = 0 THEN {<<>>}
    ELSE ListsOf(S, n - 1) \cup {Append(l, x) : l \in ListsOf(S, n - 1), x \in S}

LoadFiles == {AbsentFile, PartialFile} \cup {JsonFile(l) : l \in ListsOf(FileRecords, MaxRecords)}

\* No server is running, and USER_DB_FILE is any of LoadFiles.
LoadInit ==
    /\ db_file \in LoadFiles
    /\ boot_file = AbsentFile
    /\ users_by_token = <<>>
    /\ users_by_user_id = <<>>
    /\ dirty = FALSE
    /\ lock_user_structure = Free
    /\ lock_is_user_registered = Free
    /\ lock_register = Free
    /\ present_tokens = <<>>
    /\ token_generating_lock = Free
    /\ kimikuri_running = TRUE
    /\ interrupt_event = FALSE
    /\ main_pc = "exited"
    /\ saver_pc = "while"
    /\ saver_l = <<>>
    /\ flush_after_stop = FALSE
    /\ pc = [t \in Workers |-> "idle"]
    /\ cur = [t \in Workers |-> 0]
    /\ calls = <<>>
    /\ cli = CliOff
    /\ client = NoClient
    /\ requests_get = <<>>

\* The process is alive: daemon and worker threads run until the main thread exits.
Alive == main_pc # "exited"

\* ------------------------------------------------------------------ calls

\* seen: what the registry held for user_id when the call was made;
\* known: the calls for the same user id or token whose register had returned by then;
\* message, sent: the text to relay and the transport invocations of the call; view, out: the list the call
\* was handed by get_users when it was handed it, and what iterating it yielded;
\* self: the KuriDatabase instance the method is called on; j: the JSON list
\* from_file has still to load; before: the registry when the call was made
\* (kept for the calls of LibrarySpec)
NewCall(op, user_id, token, chat_id) ==
    [op |-> op, seen |-> GetByUserId(users_by_user_id, user_id), user_id |-> user_id, token |-> token,
     chat_id |-> chat_id, issued |-> FALSE, registered |-> FALSE,
     outcome |-> "running",
     r1 |-> None, r2 |-> None,
     known |-> {i \in 1..Len(calls) :
                   calls[i].registered /\ (calls[i].user_id = user_id \/ calls[i].token = token)},
     message |-> "", sent |-> <<>>, view |-> <<>>, out |-> <<>>,
     self |-> "database", j |-> <<>>, before |-> <<>>]

\* A new call goes to an idle worker thread; the workers being alike, to the
\* first of them that is idle.
BeginCall(t, call, first) ==
    /\ Alive
    /\ pc[t] = "idle"
    /\ t = "w1" \/ pc["w1"] # "idle"
    /\ Len(calls) < MaxCalls
    /\ calls' = Append(calls, call)
    /\ cur' = [cur EXCEPT ![t] = Len(calls) + 1]
    /\ pc' = [pc EXCEPT ![t] = first]

Begin(t, op, user_id, token, chat_id, first) ==
    BeginCall(t, NewCall(op, user_id, token, chat_id), first)

\* The call ends, its record in calls becoming `call`.
FinishWith(t, call) ==
    /\ calls' = [calls EXCEPT ![cur[t]] = call]
    /\ cur' = [cur EXCEPT ![t] = 0]
    /\ pc' = [pc EXCEPT ![t] = "idle"]

\* The call returns (or raises) to its caller with `outcome`.
Finish(t, outcome) == FinishWith(t, [calls[cur[t]] EXCEPT !.outcome = outcome])

Goto(t, label) ==
    /\ pc' = [pc EXCEPT ![t] = label]
    /\ UNCHANGED <<cur, calls>>

\* A thread calls database.register(user_id, token, chat_id) directly.
CallRegister(t) ==
    /\ \E u \in Users, k \in Tokens, c \in Chats : Begin(t, "register", u, k, c, "reg_lock")
    /\ UNCHANGED <<dbVars, lockVars, tmVars, mainVars, db_file, boot_file, clientVars, saverVars>>

\* The bot receives /register from user u in chat c.
CallHandler(t) ==
    /\ \E u \in Users, c \in Chats : Begin(t, "handler", u, NoToken, c, "h_get")
    /\ UNCHANGED <<dbVars, lockVars, tmVars, mainVars, db_file, boot_file, clientVars, saverVars>>

\* A thread resolves a token, then the user id of the record it found.
CallReader(t) ==
    /\ \E k \in Tokens : Begin(t, "reader", NoId, k, NoId, "rd_token")
    /\ UNCHANGED <<dbVars, lockVars, tmVars, mainVars, db_file, boot_file, clientVars, saverVars>>

\* The web API receives GET /message with a token (possibly empty) and a text.
CallNotify(t) ==
    /\ \E k \in Tokens \cup {NoToken}, m \in Messages :
           BeginCall(t, [NewCall("notify", NoId, k, NoId) EXCEPT !.message = m], "n_get")
    /\ UNCHANGED <<dbVars, lockVars, tmVars, mainVars, db_file, boot_file, clientVars, saverVars>>

\* The console command `users`: database.get_users(), then a for loop over it.
CallUsers(t) ==
    /\ Begin(t, "users", NoId, NoToken, NoId, "u_lock")
    /\ UNCHANGED <<dbVars, lockVars, tmVars, mainVars, db_file, boot_file, clientVars, saverVars>>

\* A caller takes the record of user u from get_user and assigns to a field of it.
CallEditCopy(t) ==
    /\ \E u \in Users : Begin(t, "edit_copy", u, NoToken, NoId, "ec_get")
    /\ UNCHANGED <<dbVars, lockVars, tmVars, mainVars, db_file, boot_file, clientVars, saverVars>>

\* A caller takes the first record of get_users and assigns to a field of it.
CallEditListed(t) ==
    /\ Begin(t, "edit_listed", NoId, NoToken, NoId, "u_lock")
    /\ UNCHANGED <<dbVars, lockVars, tmVars, mainVars, db_file, boot_file, clientVars, saverVars>>

\* A thread calls database.is_user_registered with any of its selectors given or not.
CallIsRegistered(t) ==
    /\ \E u \in Users \cup {NoId}, k \in Tokens \cup {NoToken} :
           Begin(t, "is_registered", u, k, NoId, "ir_lock")
    /\ UNCHANGED <<dbVars, lockVars, tmVars, mainVars, db_file, boot_file, clientVars, saverVars>>

\* A thread calls database.get_user with any of its selectors given or not.
CallGetUser(t) ==
    /\ \E u \in Users \cup {NoId}, k \in Tokens \cup {NoToken} :
           Begin(t, "get_user", u, k, NoId, "gu_get")
    /\ UNCHANGED <<dbVars, lockVars, tmVars, mainVars, db_file, boot_file, clientVars, saverVars>>

\* A thread looks a user up by one selector, the user id or the token, with
\* is_user_registered or with get_user.
CallLookup(t) ==
    /\ \/ \E u \in Users : \/ Begin(t, "is_registered", u, NoToken, NoId, "ir_lock")
                            \/ Begin(t, "get_user", u, NoToken, NoId, "gu_get")
       \/ \E k \in Tokens : \/ Begin(t, "is_registered", NoId, k, NoId, "ir_lock")
                             \/ Begin(t, "get_user", NoId, k, NoId, "gu_get")
    /\ UNCHANGED <<dbVars, lockVars, tmVars, mainVars, db_file, boot_file, clientVars, saverVars>>

\* A thread calls database.register for a user of the first chat.
CallRegisterOneChat(t) ==
    /\ \E u \in Users, k \in Tokens :
           Begin(t, "register", u, k, CHOOSE c \in Chats : \A d \in Chats : c <= d, "reg_lock")
    /\ UNCHANGED <<dbVars, lockVars, tmVars, mainVars, db_file, boot_file, clientVars, saverVars>>

\* The registry as a caller can tell it apart: the two dicts and the flag.
Registry == <<users_by_token, users_by_user_id, dirty>>

\* A call that a program using database.py as a library makes on `self`.
LibraryCall(op, user_id, token, chat_id, self) ==
    [NewCall(op, user_id, token, chat_id) EXCEPT !.self = self, !.before = Registry]

\* database.register with any of its arguments given or empty.
CallRegisterAny(t) ==
    /\ \E u \in Users \cup {NoId}, k \in Tokens \cup {NoToken} :
           BeginCall(t, LibraryCall("register", u, k, CHOOSE c \in Chats : \A d \in Chats : c <= d,
                                    "database"), "reg_lock")
    /\ UNCHANGED <<dbVars, lockVars, tmVars, mainVars, db_file, boot_file, clientVars, saverVars>>

\* is_user_registered() or get_user() called with no selector at all.
CallNoSelector(t) ==
    /\ \/ BeginCall(t, LibraryCall("is_registered", NoId, NoToken, NoId, "database"), "ir_lock")
       \/ BeginCall(t, LibraryCall("get_user", NoId, NoToken, NoId, "database"), "gu_get")
    /\ UNCHANGED <<dbVars, lockVars, tmVars, mainVars, db_file, boot_file, clientVars, saverVars>>

\* KuriDatabase().get_user(user_id=u): a lookup on an instance just constructed.
CallGetUserOfNew(t) ==
    /\ \E u \in Users :
           BeginCall(t, LibraryCall("get_user", u, NoToken, NoId, "KuriDatabase()"), "gu_get")
    /\ UNCHANGED <<dbVars, lockVars, tmVars, mainVars, db_file, boot_file, clientVars, saverVars>>

\* The JSON objects a file given to from_file can hold: records of users, one
\* of them with a user id that UserDict.__init__ refuses.
LibraryRecords ==
    {ToDict(UserDict(1, "tb", 8)), ToDict(UserDict(2, "tc", 7)), ToDict(UserDict(NoId, "ta", 7))}

LibraryFiles == {PartialFile} \cup {JsonFile(l) : l \in ListsOf(LibraryRecords, MaxRecords)}

\* KuriDatabase.from_file(fp) called in a running process, on an open file.
CallFromFile(t) ==
    /\ \E f \in LibraryFiles :
           BeginCall(t, [LibraryCall("from_file", NoId, NoToken, NoId, "KuriDatabase()")
                            EXCEPT !.j = <<f>>], "ff_json")
    /\ UNCHANGED <<dbVars, lockVars, tmVars, mainVars, db_file, boot_file, clientVars, saverVars>>

\* A call of any of the operations that take a lock: a /register event, a
\* register call (with a user id and a token that may be in use already, with
\* an empty user id, with an empty token), is_user_registered with and without
\* a selector, get_users.
CallLocking(t) ==
    /\ \/ Begin(t, "handler", 2, NoToken, 7, "h_get")
       \/ \E a \in {<<2, "ta">>, <<NoId, "tb">>, <<2, NoToken>>} :
              Begin(t, "register", a[1], a[2], 7, "reg_lock")
       \/ \E u \in {2, NoId} : Begin(t, "is_registered", u, NoToken, NoId, "ir_lock")
       \/ Begin(t, "users", NoId, NoToken, NoId, "u_lock")
    /\ UNCHANGED <<dbVars, lockVars, tmVars, mainVars, db_file, boot_file, clientVars, saverVars>>

\* ------------------------------------------------------------------ kuriclient.py as a script

\* the words of a command line: the three switches, a URL and a text
UrlWord == <<"h", "t", "t", "p", ":", "/", "/", "a">>
TextWord == <<"m">>
CliWords == {SwitchApiRoot, SwitchToken, SwitchMessage, UrlWord, TextWord}

RECURSIVE ArgLists(_)
ArgLists(n) ==
    IF n = 0 THEN {<<>>}
    ELSE LET shorter == ArgLists(n - 1)
         IN  shorter \cup {Append(l, w) : l \in {x \in shorter : Len(x) = n - 1}, w \in CliWords}

\* the api_root arguments a program passes to KimikuriClient: none, an empty
\* string, a string too short to be a URL, a URL with and without its slash
ApiRootArguments ==
    {NoStr, Str(<<>>), Str(<<"a">>), Str(UrlWord), Str(UrlWord \o <<"/">>)}

\* The client alone: run as a script on a command line, or imported.
ClientInit ==
    /\ cli \in {CliStart(args) : args \in ArgLists(MaxArgs)} \cup {CliImported}
    /\ client = NoClient
    /\ requests_get = <<>>
    /\ db_file = AbsentFile
    /\ boot_file = AbsentFile
    /\ users_by_token = <<>>
    /\ users_by_user_id = <<>>
    /\ dirty = FALSE
    /\ lock_user_structure = Free
    /\ lock_is_user_registered = Free
    /\ lock_register = Free
    /\ present_tokens = <<>>
    /\ token_generating_lock = Free
    /\ kimikuri_running = TRUE
    /\ interrupt_event = FALSE
    /\ main_pc = "exited"
    /\ saver_pc = "while"
    /\ saver_l = <<>>
    /\ flush_after_stop = FALSE
    /\ pc = [t \in Workers |-> "idle"]
    /\ cur = [t \in Workers |-> 0]
    /\ calls = <<>>

serverVars == <<dbVars, lockVars, tmVars, mainVars, db_file, boot_file, saverVars, workerVars>>

\* for i, t in enumerate(args): the token at hand (args is indexed from 0 in
\* the script, from 1 here)
CliT == cli.args[cli.i + 1]

\* args[i + 1] of the script is there
CliHasNext == cli.i + 2 <= Len(cli.args)

\* the for loop is exhausted
CliForEnd ==
    /\ cli.pc = "for" /\ cli.i = Len(cli.args)
    /\ cli' = [cli EXCEPT !.pc = "main"]
    /\ UNCHANGED <<serverVars, client, requests_get>>

\* lines 77-79: the token is a data; skip it
CliData ==
    /\ cli.pc = "for" /\ cli.i < Len(cli.args) /\ ~cli.is_switch
    /\ cli' = [cli EXCEPT !.is_switch = TRUE, !.i = @ + 1]
    /\ UNCHANGED <<serverVars, client, requests_get>>

\* lines 65-76 for --token and --message: `if t == '--api-root'` is false, the
\* second `if` or its `elif` takes the next token as the value
CliSwitch ==
    /\ cli.pc = "for" /\ cli.i < Len(cli.args) /\ cli.is_switch
    /\ CliT \in {SwitchToken, SwitchMessage} /\ CliHasNext
    /\ cli' = [cli EXCEPT !.token = IF CliT = SwitchToken THEN cli.args[cli.i + 2] ELSE @,
                          !.message = IF CliT = SwitchMessage THEN cli.args[cli.i + 2] ELSE @,
                          !.is_switch = FALSE, !.i = @ + 1]
    /\ UNCHANGED <<serverVars, client, requests_get>>

\* lines 65-75 for any other token: `if t == '--api-root'` stores the value
\* when t is that switch, and then the chain `if t == '--token' ... elif t ==
\* '--message' ... else` reaches its else: valid = False; break
CliNotASwitch ==
    /\ cli.pc = "for" /\ cli.i < Len(cli.args) /\ cli.is_switch
    /\ CliT \notin {SwitchToken, SwitchMessage}
    /\ CliT = SwitchApiRoot => CliHasNext
    /\ cli' = [cli EXCEPT !.api_root = IF CliT = SwitchApiRoot THEN cli.args[cli.i + 2] ELSE @,
                          !.valid = FALSE, !.pc = "main"]
    /\ UNCHANGED <<serverVars, client, requests_get>>

\* lines 80-81: a switch is the last token, args[i + 1] raises IndexError
CliIndexError ==
    /\ cli.pc = "for" /\ cli.i < Len(cli.args) /\ cli.is_switch
    /\ CliT \in {SwitchApiRoot, SwitchToken, SwitchMessage} /\ ~CliHasNext
    /\ cli' = [cli EXCEPT !.valid = FALSE, !.pc = "main"]
    /\ UNCHANGED <<serverVars, client, requests_get>>

\* lines 83-84: if valid and token and message: KimikuriClient(api_root=api_root, token=token)
CliConstruct ==
    /\ cli.pc = "main"
    /\ cli.valid /\ cli.token # <<>> /\ cli.message # <<>>
    /\ client' = KimikuriClientInit(cli.token, Str(cli.api_root))
    /\ cli' = [cli EXCEPT !.pc = "send"]
    /\ UNCHANGED <<serverVars, requests_get>>

\* lines 84-88: send_message(message); exit(0), or 'Failed to send message.' and exit(-10)
CliSend ==
    /\ cli.pc = "send"
    /\ requests_get' = Append(requests_get, Request(client, cli.message))
    /\ \E r \in Responses :
          cli' = IF SendMessageResult(r) THEN [cli EXCEPT !.pc = "exited"]
                 ELSE [cli EXCEPT !.pc = "exited", !.printed = "failed", !.exit = -10]
    /\ UNCHANGED <<serverVars, client>>

\* lines 89-91: __print_help_menu(); exit()
CliHelp ==
    /\ cli.pc = "main"
    /\ ~(cli.valid /\ cli.token # <<>> /\ cli.message # <<>>)
    /\ cli' = [cli EXCEPT !.pc = "exited", !.printed = "help"]
    /\ UNCHANGED <<serverVars, client, requests_get>>

\* a program constructs KimikuriClient(token) or KimikuriClient(token, api_root)
NewClient ==
    /\ cli.pc = "imported" /\ client = NoClient
    /\ \E a \in ApiRootArguments : client' = KimikuriClientInit(TextWord, a)
    /\ UNCHANGED <<serverVars, cli, requests_get>>

\* the program calls send_message on the client it constructed
ProgramSend ==
    /\ cli.pc = "imported" /\ client.cls = "KimikuriClient"
    /\ Len(requests_get) < MaxSends
    /\ requests_get' = Append(requests_get, Request(client, TextWord))
    /\ UNCHANGED <<serverVars, cli, client>>

\* ------------------------------------------------------------------ KuriDatabase.from_file

\* j = json.load(fp) : a decoding error for a file that holds part of a list;
\* isinstance(j, list) holds of every JsonFile
FromFileJson(t) ==
    /\ Alive /\ pc[t] = "ff_json"
    /\ LET f == calls[cur[t]].j[1]
       IN  IF f.kind = "partial" THEN Finish(t, "JSONDecodeError")
           ELSE /\ calls' = [calls EXCEPT ![cur[t]].j = f.data]
                /\ pc' = [pc EXCEPT ![t] = "ff_next"]
                /\ UNCHANGED cur
    /\ UNCHANGED <<dbVars, lockVars, tmVars, mainVars, db_file, boot_file, clientVars, saverVars>>

\* for d in j: user = UserDict.from_dict(d) (ValueError for an empty field);
\* db.__users_by_token[user.token] = user.  db is a new instance, and the dict
\* it reaches by that name is the one of the class.
FromFileNext(t) ==
    /\ Alive /\ pc[t] = "ff_next"
    /\ LET j == calls[cur[t]].j
       IN  IF j = <<>>
           THEN Finish(t, "returned") /\ UNCHANGED users_by_token
           ELSE IF ~UserDictValid(Head(j).user_id, Head(j).token, Head(j).chat_id)
           THEN Finish(t, "InvalidArgument") /\ UNCHANGED users_by_token
           ELSE /\ users_by_token' = PutByToken(users_by_token, FromDict(Head(j)))
                /\ Goto(t, "ff_put_user")
    /\ UNCHANGED <<users_by_user_id, dirty, lockVars, tmVars, mainVars, db_file, boot_file, clientVars, saverVars>>

\* db.__users_by_user_id[user.user_id] = user
FromFilePutUser(t) ==
    /\ Alive /\ pc[t] = "ff_put_user"
    /\ users_by_user_id' = PutByUserId(users_by_user_id, FromDict(Head(calls[cur[t]].j)))
    /\ calls' = [calls EXCEPT ![cur[t]].j = Tail(@)]
    /\ pc' = [pc EXCEPT ![t] = "ff_next"]
    /\ UNCHANGED <<users_by_token, dirty, cur, lockVars, tmVars, mainVars, db_file, boot_file, clientVars, saverVars>>

\* ------------------------------------------------------------------ KuriDatabase.register

Call(t) == calls[cur[t]]

\* RegisterRaises as it would be if the exception left __lock_register held
RegisterRaisesKeepsLock(t, error) ==
    /\ lock_register' = lock_register
    /\ Finish(t, error)

\* An exception leaves register (and the handler that called it): the `with`
\* releases __lock_register on the way out.
RegisterRaises(t, error) ==
    /\ lock_register' = Free
    /\ Finish(t, error)

\* RegLock as it would be without the mutual exclusion of __lock_register
RegLockNoMutex(t) ==
    /\ Alive /\ pc[t] = "reg_lock"
    /\ lock_register' = t
    /\ Goto(t, "reg_user_lock")
    /\ UNCHANGED <<dbVars, lock_user_structure, lock_is_user_registered, tmVars,
                   mainVars, db_file, boot_file, clientVars, saverVars>>

\* line 97: with self.__lock_register
RegLock(t) ==
    /\ Alive /\ pc[t] = "reg_lock"
    /\ lock_register = Free
    /\ lock_register' = t
    /\ Goto(t, "reg_user_lock")
    /\ UNCHANGED <<dbVars, lock_user_structure, lock_is_user_registered, tmVars,
                   mainVars, db_file, boot_file, clientVars, saverVars>>

\* line 98 -> 82: is_user_registered(user_id=user_id) takes its lock
RegUserLock(t) ==
    /\ Alive /\ pc[t] = "reg_user_lock"
    /\ lock_is_user_registered = Free
    /\ lock_is_user_registered' = t
    /\ Goto(t, "reg_user_check")
    /\ UNCHANGED <<dbVars, lock_user_structure, lock_register, tmVars,
                   mainVars, db_file, boot_file, clientVars, saverVars>>

\* RegUserCheck as it would be if a registered user id were let through
RegUserCheckLetsDuplicateThrough(t) ==
    /\ Alive /\ pc[t] = "reg_user_check"
    /\ lock_is_user_registered' = Free
    /\ LET r == IsUserRegistered(users_by_token, users_by_user_id, Call(t).user_id, NoToken)
       IN  IF r = "ValueError" THEN RegisterRaises(t, "InvalidArgument")
           ELSE Goto(t, "reg_token_lock") /\ UNCHANGED lock_register
    /\ UNCHANGED <<dbVars, lock_user_structure, tmVars, mainVars, db_file, boot_file, clientVars,
                   saverVars>>

\* lines 98-99: the user_id check; 'Given user is already registered.'
RegUserCheck(t) ==
    /\ Alive /\ pc[t] = "reg_user_check"
    /\ lock_is_user_registered' = Free
    /\ LET r == IsUserRegistered(users_by_token, users_by_user_id, Call(t).user_id, NoToken)
       IN  IF r = "ValueError" THEN RegisterRaises(t, "InvalidArgument")
           ELSE IF r = "True" THEN RegisterRaises(t, "DuplicateUser")
           ELSE Goto(t, "reg_token_lock") /\ UNCHANGED lock_register
    /\ UNCHANGED <<dbVars, lock_user_structure, tmVars, mainVars, db_file, boot_file, clientVars,
                   saverVars>>

\* line 100 -> 82: is_user_registered(token=token) takes its lock
RegTokenLock(t) ==
    /\ Alive /\ pc[t] = "reg_token_lock"
    /\ lock_is_user_registered = Free
    /\ lock_is_user_registered' = t
    /\ Goto(t, "reg_token_check")
    /\ UNCHANGED <<dbVars, lock_user_structure, lock_register, tmVars,
                   mainVars, db_file, boot_file, clientVars, saverVars>>

\* RegTokenCheck as it would be if a token already taken were let through
RegTokenCheckLetsDuplicateThrough(t) ==
    /\ Alive /\ pc[t] = "reg_token_check"
    /\ lock_is_user_registered' = Free
    /\ LET r == IsUserRegistered(users_by_token, users_by_user_id, NoId, Call(t).token)
       IN  IF r = "ValueError" THEN RegisterRaises(t, "InvalidArgument")
           ELSE Goto(t, "reg_new") /\ UNCHANGED lock_register
    /\ UNCHANGED <<dbVars, lock_user_structure, tmVars, mainVars, db_file, boot_file, clientVars,
                   saverVars>>

\* lines 100-101: the token check; 'Given token is already taken.'
RegTokenCheck(t) ==
    /\ Alive /\ pc[t] = "reg_token_check"
    /\ lock_is_user_registered' = Free
    /\ LET r == IsUserRegistered(users_by_token, users_by_user_id, NoId, Call(t).token)
       IN  IF r = "ValueError" THEN RegisterRaises(t, "InvalidArgument")
           ELSE IF r = "True" THEN RegisterRaises(t, "DuplicateToken")
           ELSE Goto(t, "reg_new") /\ UNCHANGED lock_register
    /\ UNCHANGED <<dbVars, lock_user_structure, tmVars, mainVars, db_file, boot_file, clientVars,
                   saverVars>>

\* lines 102-103: build the UserDict, then take __lock_user_structure
RegStructureLock(t) ==
    /\ Alive /\ pc[t] = "reg_new"
    /\ IF ~UserDictValid(Call(t).user_id, Call(t).token, Call(t).chat_id)
       THEN RegisterRaises(t, "InvalidArgument") /\ UNCHANGED lock_user_structure
       ELSE /\ lock_user_structure = Free
            /\ lock_user_structure' = t
            /\ Goto(t, "reg_put_token")
            /\ UNCHANGED lock_register
    /\ UNCHANGED <<dbVars, lock_is_user_registered, tmVars, mainVars, db_file,
                   boot_file, clientVars, saverVars>>

\* RegPutToken as it would be if the token index were left out
RegPutTokenForgotten(t) ==
    /\ Alive /\ pc[t] = "reg_put_token"
    /\ Goto(t, "reg_put_user")
    /\ UNCHANGED <<dbVars, lockVars, tmVars, mainVars, db_file, boot_file, clientVars, saverVars>>

\* line 104: self.__users_by_token[token] = user
RegPutToken(t) ==
    /\ Alive /\ pc[t] = "reg_put_token"
    /\ users_by_token' = PutByToken(users_by_token,
                             UserDict(Call(t).user_id, Call(t).token, Call(t).chat_id))
    /\ Goto(t, "reg_put_user")
    /\ UNCHANGED <<users_by_user_id, dirty, lockVars, tmVars, mainVars, db_file,
                   boot_file, clientVars, saverVars>>

\* RegPutUser as it would be if the user id index were left out
RegPutUserForgotten(t) ==
    /\ Alive /\ pc[t] = "reg_put_user"
    /\ Goto(t, "reg_dirty")
    /\ UNCHANGED <<dbVars, lockVars, tmVars, mainVars, db_file, boot_file, clientVars, saverVars>>

\* line 105: self.__users_by_user_id[user_id] = user
RegPutUser(t) ==
    /\ Alive /\ pc[t] = "reg_put_user"
    /\ users_by_user_id' = PutByUserId(users_by_user_id,
                               UserDict(Call(t).user_id, Call(t).token, Call(t).chat_id))
    /\ Goto(t, "reg_dirty")
    /\ UNCHANGED <<users_by_token, dirty, lockVars, tmVars, mainVars, db_file,
                   boot_file, clientVars, saverVars>>

\* line 106: self.__dirty = True
RegDirty(t) ==
    /\ Alive /\ pc[t] = "reg_dirty"
    /\ dirty' = TRUE
    /\ Goto(t, "reg_return")
    /\ UNCHANGED <<users_by_token, users_by_user_id, lockVars, tmVars, mainVars,
                   db_file, boot_file, clientVars, saverVars>>

\* leaving both `with` blocks: register returns; the /register handler goes on
\* to its reply
RegReturn(t) ==
    /\ Alive /\ pc[t] = "reg_return"
    /\ lock_user_structure' = Free
    /\ lock_register' = Free
    /\ IF Call(t).op = "handler"
       THEN /\ calls' = [calls EXCEPT ![cur[t]].registered = TRUE]
            /\ pc' = [pc EXCEPT ![t] = "h_reply"]
            /\ UNCHANGED cur
       ELSE /\ calls' = [calls EXCEPT ![cur[t]].registered = TRUE,
                                      ![cur[t]].outcome = "ok"]
            /\ cur' = [cur EXCEPT ![t] = 0]
            /\ pc' = [pc EXCEPT ![t] = "idle"]
    /\ UNCHANGED <<dbVars, lock_is_user_registered, tmVars, mainVars, db_file,
                   boot_file, clientVars, saverVars>>

\* ------------------------------------------------------------------ /register

\* the handler as it would be if it minted a token for every /register
HandlerGetUserMintsAgain(t) ==
    /\ Alive /\ pc[t] = "h_get"
    /\ LET user == GetUser(users_by_token, users_by_user_id, Call(t).user_id, NoToken)
       IN  /\ calls' = [calls EXCEPT ![cur[t]].r1 = user, ![cur[t]].token = NoToken]
           /\ pc' = [pc EXCEPT ![t] = "gen_lock"]
           /\ UNCHANGED cur
    /\ UNCHANGED <<dbVars, lockVars, tmVars, mainVars, db_file, boot_file, clientVars, saverVars>>

\* kimikuri.py line 210-212: user := database.get_user(user_id=sender_id)
HandlerGetUser(t) ==
    /\ Alive /\ pc[t] = "h_get"
    /\ LET user == GetUser(users_by_token, users_by_user_id, Call(t).user_id, NoToken)
       IN  /\ calls' = [calls EXCEPT ![cur[t]].r1 = user,
                                     ![cur[t]].token = IF IsUserDict(user) THEN user.token
                                                       ELSE NoToken]
           /\ pc' = [pc EXCEPT ![t] = IF IsUserDict(user) THEN "h_reply" ELSE "gen_lock"]
           /\ UNCHANGED cur
    /\ UNCHANGED <<dbVars, lockVars, tmVars, mainVars, db_file, boot_file, clientVars, saverVars>>

\* TokenManager.generate_unused_token: with self.__token_generating_lock
GenLock(t) ==
    /\ Alive /\ pc[t] = "gen_lock"
    /\ token_generating_lock = Free
    /\ token_generating_lock' = t
    /\ Goto(t, "gen_loop")
    /\ UNCHANGED <<dbVars, lockVars, present_tokens, mainVars, db_file, boot_file, clientVars,
                   saverVars>>

\* One turn of `while not token or token in self.__present_tokens: token = __gen()`:
\* a token already present keeps the loop turning; a fresh one is appended and
\* returned, the lock released.
GenLoop(t) ==
    /\ Alive /\ pc[t] = "gen_loop"
    /\ \E token \in Tokens :
          IF token \in Range(present_tokens)
          THEN UNCHANGED <<present_tokens, token_generating_lock, workerVars>>
          ELSE /\ present_tokens' = Append(present_tokens, token)
               /\ token_generating_lock' = Free
               /\ calls' = [calls EXCEPT ![cur[t]].token = token,
                                         ![cur[t]].issued = TRUE]
               /\ pc' = [pc EXCEPT ![t] = "reg_lock"]
               /\ UNCHANGED cur
    /\ UNCHANGED <<dbVars, lockVars, mainVars, db_file, boot_file, clientVars, saverVars>>

\* kimikuri.py line 217-220: context.bot.send_message('Your token: ...')
HandlerReply(t) ==
    /\ Alive /\ pc[t] = "h_reply"
    /\ Finish(t, "replied")
    /\ UNCHANGED <<dbVars, lockVars, tmVars, mainVars, db_file, boot_file, clientVars, saverVars>>

\* ------------------------------------------------------------------ lookups

\* database.get_user(token=token), as notify does
ReaderGetByToken(t) ==
    /\ Alive /\ pc[t] = "rd_token"
    /\ LET user == GetUser(users_by_token, users_by_user_id, NoId, Call(t).token)
       IN  IF IsUserDict(user)
           THEN /\ calls' = [calls EXCEPT ![cur[t]].r1 = user]
                /\ pc' = [pc EXCEPT ![t] = "rd_user"]
                /\ UNCHANGED cur
           ELSE Finish(t, "done")
    /\ UNCHANGED <<dbVars, lockVars, tmVars, mainVars, db_file, boot_file, clientVars, saverVars>>

\* database.get_user(user_id=user.user_id), of the record just found
ReaderGetByUserId(t) ==
    /\ Alive /\ pc[t] = "rd_user"
    /\ LET user == GetUser(users_by_token, users_by_user_id, Call(t).r1.user_id, NoToken)
       IN  FinishWith(t, [Call(t) EXCEPT !.r2 = user, !.outcome = "done"])
    /\ UNCHANGED <<dbVars, lockVars, tmVars, mainVars, db_file, boot_file, clientVars, saverVars>>

\* database.py line 82: with self.__lock_is_user_registered
IsRegisteredLock(t) ==
    /\ Alive /\ pc[t] = "ir_lock"
    /\ lock_is_user_registered = Free
    /\ lock_is_user_registered' = t
    /\ Goto(t, "ir_check")
    /\ UNCHANGED <<dbVars, lock_user_structure, lock_register, tmVars, mainVars,
                   db_file, boot_file, clientVars, saverVars>>

\* database.py lines 83-91: the answer, or ValueError with no selector; the
\* lock is released either way
IsRegisteredCheck(t) ==
    /\ Alive /\ pc[t] = "ir_check"
    /\ lock_is_user_registered' = Free
    /\ LET r == IsUserRegistered(users_by_token, users_by_user_id, Call(t).user_id, Call(t).token)
       IN  Finish(t, IF r = "ValueError" THEN "InvalidArgument" ELSE r)
    /\ UNCHANGED <<dbVars, lock_user_structure, lock_register, tmVars, mainVars,
                   db_file, boot_file, clientVars, saverVars>>

\* database.py lines 108-119: get_user, which takes no lock
GetUserCall(t) ==
    /\ Alive /\ pc[t] = "gu_get"
    /\ IF Call(t).user_id = NoId /\ Call(t).token = NoToken
       THEN Finish(t, "InvalidArgument")
       ELSE FinishWith(t, [Call(t) EXCEPT
                !.r1 = GetUser(users_by_token, users_by_user_id, Call(t).user_id, Call(t).token),
                !.outcome = "returned"])
    /\ UNCHANGED <<dbVars, lockVars, tmVars, mainVars, db_file, boot_file, clientVars, saverVars>>

\* ------------------------------------------------------------------ notify

\* notify as it would be if it went on to the transport without a record
NotifyGetUserSendsAnyway(t) ==
    /\ Alive /\ pc[t] = "n_get"
    /\ IF Call(t).token = NoToken
       THEN Finish(t, "InvalidArgument")
       ELSE /\ calls' = [calls EXCEPT ![cur[t]].r1 =
                            GetUser(users_by_token, users_by_user_id, NoId, Call(t).token)]
            /\ pc' = [pc EXCEPT ![t] = "n_send"]
            /\ UNCHANGED cur
    /\ UNCHANGED <<dbVars, lockVars, tmVars, mainVars, db_file, boot_file, clientVars, saverVars>>

\* kimikuri.py lines 243-244, 248-249 and 284: user = database.get_user(token=token).
\* get_user raises ValueError for an empty token; without a record notify
\* returns None, which the web API reports as {'success': False}.
NotifyGetUser(t) ==
    /\ Alive /\ pc[t] = "n_get"
    /\ IF Call(t).token = NoToken
       THEN Finish(t, "InvalidArgument")
       ELSE LET user == GetUser(users_by_token, users_by_user_id, NoId, Call(t).token)
            IN  IF IsUserDict(user)
                THEN /\ calls' = [calls EXCEPT ![cur[t]].r1 = user]
                     /\ pc' = [pc EXCEPT ![t] = "n_send"]
                     /\ UNCHANGED cur
                ELSE Finish(t, "False")
    /\ UNCHANGED <<dbVars, lockVars, tmVars, mainVars, db_file, boot_file, clientVars, saverVars>>

\* one invocation of the transport, with what it was given and how it ended
Invocation(t, result) ==
    [chat_id |-> Call(t).r1.chat_id, text |-> Call(t).message, result |-> result]

\* kimikuri.py lines 246-247 and 284: bot.send_message(chat_id=user.chat_id,
\* text=message) returns, notify returns True.
NotifySend(t) ==
    /\ Alive /\ pc[t] = "n_send"
    /\ FinishWith(t, [Call(t) EXCEPT !.sent = Append(@, Invocation(t, "sent")),
                                     !.outcome = "True"])
    /\ UNCHANGED <<dbVars, lockVars, tmVars, mainVars, db_file, boot_file, clientVars, saverVars>>

\* NotifySendFails as it would be if notify caught the error and returned True
NotifySendFailsReportsSuccess(t) ==
    /\ Alive /\ pc[t] = "n_send"
    /\ FinishWith(t, [Call(t) EXCEPT !.sent = Append(@, Invocation(t, "failed")),
                                     !.outcome = "True"])
    /\ UNCHANGED <<dbVars, lockVars, tmVars, mainVars, db_file, boot_file, clientVars, saverVars>>

\* kimikuri.py line 246: bot.send_message raises (the platform refuses, or the
\* network fails or times out); nothing catches it, so the error leaves notify
\* and the request fails.
NotifySendFails(t) ==
    /\ Alive /\ pc[t] = "n_send"
    /\ FinishWith(t, [Call(t) EXCEPT !.sent = Append(@, Invocation(t, "failed")),
                                     !.outcome = "TransportError"])
    /\ UNCHANGED <<dbVars, lockVars, tmVars, mainVars, db_file, boot_file, clientVars, saverVars>>

\* ------------------------------------------------------------------ get_users

\* database.py line 122: with self.__lock_user_structure
UsersLock(t) ==
    /\ Alive /\ pc[t] = "u_lock"
    /\ lock_user_structure = Free
    /\ lock_user_structure' = t
    /\ Goto(t, "u_view")
    /\ UNCHANGED <<dbVars, lock_is_user_registered, lock_register, tmVars, mainVars,
                   db_file, boot_file, clientVars, saverVars>>

\* database.py line 123: return filter(..., self.__users_by_token.values()).
\* filter() takes an iterator of the dict's values view, which remembers the
\* size of the dict (Len(view)) and reads the dict itself as it goes; the
\* lock is released on return.
UsersView(t) ==
    /\ Alive /\ pc[t] = "u_view"
    /\ lock_user_structure' = Free
    /\ calls' = [calls EXCEPT ![cur[t]].view = users_by_token]
    /\ pc' = [pc EXCEPT ![t] = IF Call(t).op = "users" THEN "u_next" ELSE "el_next"]
    /\ UNCHANGED cur
    /\ UNCHANGED <<dbVars, lock_is_user_registered, lock_register, tmVars, mainVars,
                   db_file, boot_file, clientVars, saverVars>>

\* the dict grew since the iterator was made: its next() raises RuntimeError
\* ('dictionary changed size during iteration')
ChangedSize(t) == Len(users_by_token) # Len(Call(t).view)

\* kimikuri.py lines 350-352: one turn of `for user in users`, that is one
\* next() of the iterator: the next value of the dict as it is now, or the end.
UsersNext(t) ==
    /\ Alive /\ pc[t] = "u_next"
    /\ IF ChangedSize(t) THEN Finish(t, "RuntimeError")
       ELSE IF Len(Call(t).out) < Len(users_by_token)
       THEN /\ calls' = [calls EXCEPT ![cur[t]].out =
                            Append(@, users_by_token[Len(Call(t).out) + 1])]
            /\ UNCHANGED <<pc, cur>>
       ELSE Finish(t, "done")
    /\ UNCHANGED <<dbVars, lockVars, tmVars, mainVars, db_file, boot_file, clientVars, saverVars>>

\* ------------------------------------------------------------------ callers that assign to a record

\* what the caller's assignment makes of the record: user.chat_id = user.user_id
Edited(user) == [user EXCEPT !.chat_id = user.user_id]

\* user = database.get_user(user_id=u): database.py lines 108-119
EditCopyGet(t) ==
    /\ Alive /\ pc[t] = "ec_get"
    /\ LET user == GetUser(users_by_token, users_by_user_id, Call(t).user_id, NoToken)
       IN  IF IsUserDict(user)
           THEN /\ calls' = [calls EXCEPT ![cur[t]].r1 = user]
                /\ pc' = [pc EXCEPT ![t] = "ec_set"]
                /\ UNCHANGED cur
           ELSE Finish(t, "none")
    /\ UNCHANGED <<dbVars, lockVars, tmVars, mainVars, db_file, boot_file, clientVars, saverVars>>

\* the assignment, to the object get_user made at database.py line 113
EditCopySet(t) ==
    /\ Alive /\ pc[t] = "ec_set"
    /\ FinishWith(t, [Call(t) EXCEPT !.r1 = Edited(@), !.outcome = "done"])
    /\ UNCHANGED <<dbVars, lockVars, tmVars, mainVars, db_file, boot_file, clientVars, saverVars>>

\* user = next(database.get_users()): the first value of the dict itself
EditListedNext(t) ==
    /\ Alive /\ pc[t] = "el_next"
    /\ IF ChangedSize(t) THEN Finish(t, "RuntimeError")
       ELSE IF users_by_token = <<>> THEN Finish(t, "none")
       ELSE /\ calls' = [calls EXCEPT ![cur[t]].r1 = users_by_token[1]]
            /\ pc' = [pc EXCEPT ![t] = "el_set"]
            /\ UNCHANGED cur
    /\ UNCHANGED <<dbVars, lockVars, tmVars, mainVars, db_file, boot_file, clientVars, saverVars>>

\* dict d after an assignment to the object that is its value `user`
WithObjectEdited(d, user) == [i \in 1..Len(d) |-> IF d[i] = user THEN Edited(user) ELSE d[i]]

\* the assignment, to the object that both dicts of the registry hold
\* (database.py lines 104-105 and 57-58 store one object under both keys)
EditListedSet(t) ==
    /\ Alive /\ pc[t] = "el_set"
    /\ users_by_token' = WithObjectEdited(users_by_token, users_by_token[1])
    /\ users_by_user_id' = WithObjectEdited(users_by_user_id, users_by_token[1])
    /\ FinishWith(t, [Call(t) EXCEPT !.r1 = Edited(users_by_token[1]), !.outcome = "done"])
    /\ UNCHANGED <<dirty, lockVars, tmVars, mainVars, db_file, boot_file, clientVars, saverVars>>

\* ------------------------------------------------------------------ save loop

\* the loop condition as it would be if it were `while True`
SaveWhileIgnoresFlag ==
    /\ Alive /\ saver_pc = "while"
    /\ saver_pc' = "wait"
    /\ UNCHANGED <<dbVars, lockVars, tmVars, mainVars, db_file, boot_file, clientVars, saver_l,
                   flush_after_stop, workerVars>>

\* kimikuri.py line 135: while kimikuri_running
SaveWhile ==
    /\ Alive /\ saver_pc = "while"
    /\ saver_pc' = IF kimikuri_running THEN "wait" ELSE "stopped"
    /\ UNCHANGED <<dbVars, lockVars, tmVars, mainVars, db_file, boot_file, clientVars, saver_l,
                   flush_after_stop, workerVars>>

\* line 136: __save_database_loop_interrupt_event.wait(10) returns, the event
\* set or the ten seconds over
SaveWait ==
    /\ Alive /\ saver_pc = "wait"
    /\ saver_pc' = "is_dirty"
    /\ UNCHANGED <<dbVars, lockVars, tmVars, mainVars, db_file, boot_file, clientVars, saver_l,
                   flush_after_stop, workerVars>>

\* line 138 as it would be if the loop flushed on every tick, dirty or not
SaveIsDirtyFlushesAnyway ==
    /\ Alive /\ saver_pc = "is_dirty"
    /\ saver_pc' = "open"
    /\ UNCHANGED <<dbVars, lockVars, tmVars, mainVars, db_file, boot_file, clientVars, saver_l,
                   flush_after_stop, workerVars>>

\* line 138: if database.is_dirty()
SaveIsDirty ==
    /\ Alive /\ saver_pc = "is_dirty"
    /\ saver_pc' = IF dirty THEN "open" ELSE "while"
    /\ UNCHANGED <<dbVars, lockVars, tmVars, mainVars, db_file, boot_file, clientVars, saver_l,
                   flush_after_stop, workerVars>>

\* line 139: open(USER_DB_FILE, 'w') truncates the file
SaveOpen ==
    /\ Alive /\ saver_pc = "open"
    /\ db_file' = PartialFile
    /\ saver_pc' = "to_file"
    /\ flush_after_stop' = (flush_after_stop \/ ~kimikuri_running)
    /\ UNCHANGED <<dbVars, lockVars, tmVars, mainVars, boot_file, clientVars, saver_l, workerVars>>

\* line 139: open raises IOError (storage unavailable)
SaveOpenFails ==
    /\ Alive /\ saver_pc = "open"
    /\ saver_pc' = "except"
    /\ flush_after_stop' = (flush_after_stop \/ ~kimikuri_running)
    /\ UNCHANGED <<dbVars, lockVars, tmVars, mainVars, db_file, boot_file, clientVars, saver_l,
                   workerVars>>

\* ToFileLock as it would be if to_file copied the records without the lock
ToFileLockNoMutex ==
    /\ Alive /\ saver_pc = "to_file"
    /\ lock_user_structure' = Saver
    /\ saver_pc' = "snapshot"
    /\ UNCHANGED <<dbVars, lock_is_user_registered, lock_register, tmVars, mainVars,
                   db_file, boot_file, clientVars, saver_l, flush_after_stop, workerVars>>

\* database.py line 67: with self.__lock_user_structure
ToFileLock ==
    /\ Alive /\ saver_pc = "to_file"
    /\ lock_user_structure = Free
    /\ lock_user_structure' = Saver
    /\ saver_pc' = "snapshot"
    /\ UNCHANGED <<dbVars, lock_is_user_registered, lock_register, tmVars, mainVars,
                   db_file, boot_file, clientVars, saver_l, flush_after_stop, workerVars>>

\* ToFileSnapshot as it would be if json.dump were inside the `with` block
ToFileSnapshotKeepsLock ==
    /\ Alive /\ saver_pc = "snapshot"
    /\ saver_l' = ToFileList(users_by_token)
    /\ saver_pc' = "dump"
    /\ UNCHANGED <<dbVars, lockVars, tmVars, mainVars,
                   db_file, boot_file, clientVars, flush_after_stop, workerVars>>

\* line 68: l = [x.to_dict() for x in self.__users_by_token.values()], lock released
ToFileSnapshot ==
    /\ Alive /\ saver_pc = "snapshot"
    /\ saver_l' = ToFileList(users_by_token)
    /\ lock_user_structure' = Free
    /\ saver_pc' = "dump"
    /\ UNCHANGED <<dbVars, lock_is_user_registered, lock_register, tmVars, mainVars,
                   db_file, boot_file, clientVars, flush_after_stop, workerVars>>

\* line 69: json.dump(l, fp, indent=4) writes the whole list
ToFileDump ==
    /\ Alive /\ saver_pc = "dump"
    /\ db_file' = JsonFile(saver_l)
    /\ saver_pc' = "clear_dirty"
    /\ UNCHANGED <<dbVars, lockVars, tmVars, mainVars, boot_file, clientVars, saver_l,
                   flush_after_stop, workerVars>>

\* ToFileDumpFails as it would be if the flag were cleared in a `finally`
ToFileDumpFailsAndClearsDirty ==
    /\ Alive /\ saver_pc = "dump"
    /\ db_file' = PartialFile
    /\ saver_pc' = "except"
    /\ saver_l' = <<>>
    /\ dirty' = FALSE
    /\ UNCHANGED <<users_by_token, users_by_user_id, lockVars, tmVars, mainVars,
                   boot_file, clientVars, flush_after_stop, workerVars>>

\* line 69: json.dump raises IOError partway; line 70 is not reached
ToFileDumpFails ==
    /\ Alive /\ saver_pc = "dump"
    /\ db_file' = PartialFile
    /\ saver_pc' = "except"
    /\ saver_l' = <<>>
    /\ UNCHANGED <<dbVars, lockVars, tmVars, mainVars, boot_file, clientVars, flush_after_stop,
                   workerVars>>

\* line 70: self.__dirty = False; then kimikuri.py line 141, 'Saved the database.'
ToFileClearDirty ==
    /\ Alive /\ saver_pc = "clear_dirty"
    /\ dirty' = FALSE
    /\ saver_pc' = "while"
    /\ saver_l' = <<>>
    /\ UNCHANGED <<users_by_token, users_by_user_id, lockVars, tmVars, mainVars,
                   db_file, boot_file, clientVars, flush_after_stop, workerVars>>

\* SaveExcept as it would be if the handler left the loop
SaveExceptLeavesLoop ==
    /\ Alive /\ saver_pc = "except"
    /\ saver_pc' = "stopped"
    /\ UNCHANGED <<dbVars, lockVars, tmVars, mainVars, db_file, boot_file, clientVars, saver_l,
                   flush_after_stop, workerVars>>

\* kimikuri.py line 142-143: except IOError: log, and go round the loop
SaveExcept ==
    /\ Alive /\ saver_pc = "except"
    /\ saver_pc' = "while"
    /\ UNCHANGED <<dbVars, lockVars, tmVars, mainVars, db_file, boot_file, clientVars, saver_l,
                   flush_after_stop, workerVars>>

\* ------------------------------------------------------------------ stop()

\* kimikuri.py line 266: kimikuri_running = False
StopFlag ==
    /\ main_pc = "serving"
    /\ kimikuri_running' = FALSE
    /\ main_pc' = "stop_event"
    /\ UNCHANGED <<dbVars, lockVars, tmVars, interrupt_event, db_file, boot_file, clientVars,
                   saverVars, workerVars>>

\* line 267: __save_database_loop_interrupt_event.set()
StopEvent ==
    /\ main_pc = "stop_event"
    /\ interrupt_event' = TRUE
    /\ main_pc' = "stop_exit"
    /\ UNCHANGED <<dbVars, lockVars, tmVars, kimikuri_running, db_file, boot_file, clientVars,
                   saverVars, workerVars>>

\* lines 268-270: the updater and the dispatcher are stopped (their handlers
\* have returned), exit(0): the process ends, and its daemon save thread with it
StopExit ==
    /\ main_pc = "stop_exit"
    /\ \A t \in Workers : pc[t] = "idle"
    /\ main_pc' = "exited"
    /\ UNCHANGED <<dbVars, lockVars, tmVars, kimikuri_running, interrupt_event,
                   db_file, boot_file, clientVars, saverVars, workerVars>>

\* ------------------------------------------------------------------ startup

\* The server is started again after it exited: kimikuri.py lines 115-153 in a
\* new process, on the USER_DB_FILE the last one left. from_file puts every
\* record of the list in both dicts of a new KuriDatabase, whose __dirty is
\* False; a file holding part of a list makes json.load raise an error that
\* `except IOError` does not catch, and the new process ends there.
\* (calls, the history of the requests, is not the process's and stays.)
Restart ==
    /\ main_pc = "exited"
    /\ boot_file' = db_file
    /\ users_by_token' = BootDatabase(db_file).by_token
    /\ users_by_user_id' = BootDatabase(db_file).by_user_id
    /\ dirty' = FALSE
    /\ lock_user_structure' = Free
    /\ lock_is_user_registered' = Free
    /\ lock_register' = Free
    /\ present_tokens' \in {TokenManagerInit(users_by_token'),
                            LegacyTokenManagerInit(users_by_token')}
    /\ token_generating_lock' = Free
    /\ kimikuri_running' = TRUE
    /\ interrupt_event' = FALSE
    /\ main_pc' = IF db_file.kind = "partial" THEN "exited" ELSE "serving"
    /\ saver_pc' = "while"
    /\ saver_l' = <<>>
    /\ flush_after_stop' = FALSE
    /\ pc' = [t \in Workers |-> "idle"]
    /\ cur' = [t \in Workers |-> 0]
    /\ UNCHANGED <<db_file, calls, clientVars>>

\* ------------------------------------------------------------------ specification

Register(t) ==
    \/ RegLock(t) \/ RegUserLock(t) \/ RegUserCheck(t)
    \/ RegTokenLock(t) \/ RegTokenCheck(t) \/ RegStructureLock(t)
    \/ RegPutToken(t) \/ RegPutUser(t) \/ RegDirty(t) \/ RegReturn(t)

Handler(t) == HandlerGetUser(t) \/ GenLock(t) \/ GenLoop(t) \/ HandlerReply(t)

Reader(t) == ReaderGetByToken(t) \/ ReaderGetByUserId(t)

ToFile == ToFileLock \/ ToFileSnapshot \/ ToFileDump \/ ToFileClearDirty

\* one turn of the loop with the sink working
Tick == SaveWhile \/ SaveWait \/ SaveIsDirty \/ SaveOpen \/ ToFile

SaveLoop == Tick \/ SaveExcept

SinkFails == SaveOpenFails \/ ToFileDumpFails

Stop == StopFlag \/ StopEvent \/ StopExit

\* The registry and the token issuer under concurrent worker threads.
Next ==
    \/ \E t \in Workers : CallRegisterOneChat(t) \/ CallHandler(t) \/ CallReader(t)
    \/ \E t \in Workers : Register(t) \/ Handler(t) \/ Reader(t)

Spec == Init /\ [][Next]_vars

\* The save loop and stop(), with a thread that registers users meanwhile.
SaveNext ==
    \/ CallRegister("w1") \/ Register("w1")
    \/ SaveLoop
    \/ SinkFails
    \/ Stop

SaveSpec == Init /\ [][SaveNext]_vars

\* The save loop alone with a healthy storage sink and no stop(): the loop keeps
\* ticking (it is a thread of its own, so it always gets to run), and a
\* register call that was made runs to its end.
LiveNext ==
    \/ CallRegister("w1") \/ Register("w1")
    \/ Tick

LiveSpec ==
    /\ Init /\ [][LiveNext]_vars
    /\ WF_vars(Tick)
    /\ WF_vars(Register("w1"))

\* stop() arriving at any point of the save loop, whose thread keeps being
\* scheduled while the process lives, as does the thread that registers users;
\* the sink may fail; nothing says how long stop() takes to reach exit(0).
StopNext ==
    \/ CallRegisterOneChat("w1") \/ Register("w1")
    \/ SaveLoop
    \/ SinkFails
    \/ Stop

StopSpec ==
    /\ Init /\ [][StopNext]_vars
    /\ WF_vars(SaveLoop \/ SinkFails)
    /\ WF_vars(Register("w1"))

Notify(t) == NotifyGetUser(t) \/ NotifySend(t)

\* The web API relaying messages while users are registered, over a transport
\* that can fail.
NotifyNext ==
    \/ \E t \in Workers : CallRegister(t) \/ CallNotify(t)
    \/ \E t \in Workers : Register(t) \/ Notify(t) \/ NotifySendFails(t)

NotifySpec == Init /\ [][NotifyNext]_vars

ListUsers(t) == UsersLock(t) \/ UsersView(t) \/ UsersNext(t)

\* The console listing the users while users are registered.
ListNext ==
    \/ \E t \in Workers : CallRegister(t) \/ CallUsers(t)
    \/ \E t \in Workers : Register(t) \/ ListUsers(t)

ListSpec == Init /\ [][ListNext]_vars

EditCopy(t) == EditCopyGet(t) \/ EditCopySet(t)

EditListed(t) == UsersLock(t) \/ UsersView(t) \/ EditListedNext(t) \/ EditListedSet(t)

\* One thread that registers users and assigns to records the registry gave it.
EditNext ==
    \/ CallRegister("w1") \/ CallEditCopy("w1") \/ CallEditListed("w1")
    \/ Register("w1") \/ EditCopy("w1") \/ EditListed("w1")

EditSpec == Init /\ [][EditNext]_vars

\* The server started on a database file that it did not write itself.
LoadNext == Restart

LoadSpec == LoadInit /\ [][LoadNext]_vars

\* The server registering users and saving them, being stopped, and being
\* started again on the file it left.
TripNext ==
    \/ CallRegisterOneChat("w1") \/ Register("w1")
    \/ Tick
    \/ Stop
    \/ Restart

TripSpec == Init /\ [][TripNext]_vars

IsRegistered(t) == IsRegisteredLock(t) \/ IsRegisteredCheck(t)

\* Threads that look users up by user id or by token while users are registered.
LookupNext ==
    \/ \E t \in Workers : CallRegisterOneChat(t) \/ CallLookup(t)
    \/ \E t \in Workers : Register(t) \/ IsRegistered(t) \/ GetUserCall(t)

LookupSpec == Init /\ [][LookupNext]_vars

\* Threads that call is_user_registered in all its forms while users are registered.
IsRegisteredNext ==
    \/ \E t \in Workers : CallRegisterOneChat(t) \/ CallIsRegistered(t)
    \/ \E t \in Workers : Register(t) \/ IsRegistered(t)

IsRegisteredSpec == Init /\ [][IsRegisteredNext]_vars

\* Threads that call get_user in all its forms while users are registered.
GetUserNext ==
    \/ \E t \in Workers : CallRegisterOneChat(t) \/ CallGetUser(t)
    \/ \E t \in Workers : Register(t) \/ GetUserCall(t)

GetUserSpec == Init /\ [][GetUserNext]_vars

\* /register events alone, handled by two worker threads.
HandlerNext ==
    \/ \E t \in Workers : CallHandler(t)
    \/ \E t \in Workers : Handler(t) \/ Register(t)

HandlerSpec == Init /\ [][HandlerNext]_vars

\* Every operation that takes a lock, called from two worker threads while the
\* save thread runs its loop.
WorkerStep(t) == Handler(t) \/ Register(t) \/ IsRegistered(t) \/ ListUsers(t)

LockNext ==
    \/ \E t \in Workers : CallLocking(t)
    \/ \E t \in Workers : WorkerStep(t)
    \/ Tick

LockSpec == Init /\ [][LockNext]_vars

\* kuriclient.py, as a script and as a module.
ClientNext ==
    \/ CliForEnd \/ CliData \/ CliSwitch \/ CliNotASwitch \/ CliIndexError
    \/ CliConstruct \/ CliSend \/ CliHelp
    \/ NewClient \/ ProgramSend

ClientSpec == ClientInit /\ [][ClientNext]_vars

\* One thread of a program that uses database.py as a library: every public
\* operation, with the arguments that make it fail among its inputs.
LoadFromFile(t) == FromFileJson(t) \/ FromFileNext(t) \/ FromFilePutUser(t)

LibraryNext ==
    \/ CallRegisterAny("w1") \/ CallNoSelector("w1") \/ CallGetUserOfNew("w1") \/ CallFromFile("w1")
    \/ Register("w1") \/ IsRegistered("w1") \/ GetUserCall("w1") \/ LoadFromFile("w1")

LibrarySpec == Init /\ [][LibraryNext]_vars

\* ------------------------------------------------------------------ properties

Idle == \A t \in Workers : pc[t] = "idle"

CallIds == 1..Len(calls)

Finished(i) == calls[i].outcome # "running"

\* the record a call asked register to store
RecordOf(i) == UserDict(calls[i].user_id, calls[i].token, calls[i].chat_id)

\* what USER_DB_FILE holds that a restart can load
Stored == IF db_file.kind = "json" THEN Range(db_file.data) ELSE {}

\* to_file has been entered and has not returned or raised yet
FlushInProgress == saver_pc \in {"to_file", "snapshot", "dump", "clear_dirty"}

\* C1: whatever the interleaving of register calls, at most one succeeds for a
\* user id and at most one for a token; the others with that user id or token
\* end in an error.
C1_AtMostOneRegistration ==
    \A i, j \in CallIds :
        (i # j /\ calls[i].registered /\ calls[j].registered)
            => /\ calls[i].user_id # calls[j].user_id
               /\ calls[i].token # calls[j].token

\* C1 happens: of two overlapping register calls for one user, the one made later
\* registered and the one made first was refused.
C1_Witness ==
    \E i, j \in CallIds :
        /\ i < j /\ calls[i].op = "register" /\ calls[j].op = "register"
        /\ calls[i].user_id = calls[j].user_id
        /\ ~IsUserDict(calls[i].seen)
        /\ calls[j].registered /\ calls[j].outcome = "ok"
        /\ calls[i].outcome = "DuplicateUser"

\* C2: once the concurrent registrations are over, there is one record per
\* registered user id, no two records share a token, and the two indices hold
\* the same records.
C2_IndicesAgree ==
    Idle =>
        /\ Range(users_by_token) = Range(users_by_user_id)
        /\ Len(users_by_token) = Len(users_by_user_id)
        /\ \A r, q \in Range(users_by_user_id) :
               (r.user_id = q.user_id \/ r.token = q.token) => r = q
        /\ \A i \in CallIds :
               calls[i].registered =>
                   {r \in Range(users_by_user_id) : r.user_id = calls[i].user_id}
                       = {RecordOf(i)}

\* C2 happens: two /register events of different users, overlapping, each
\* stored with the token the issuer gave it.
C2_Witness ==
    /\ Idle
    /\ \E i, j \in CallIds :
          /\ i < j /\ calls[i].op = "handler" /\ calls[j].op = "handler"
          /\ calls[i].user_id # calls[j].user_id
          /\ calls[i].issued /\ calls[j].issued
          /\ calls[i].registered /\ calls[j].registered
          /\ users_by_user_id = <<RecordOf(j), RecordOf(i)>>

\* C3: a reader never sees a half-updated pair of indices: a record it found
\* through the token index is found through the user id index as well.
C3_ReadersSeeBothIndices ==
    \A i \in CallIds :
        (calls[i].op = "reader" /\ Finished(i) /\ IsUserDict(calls[i].r1))
            => calls[i].r2 = calls[i].r1

\* C4: with no flush in progress (and no thread inside the registry's critical
\* section), a record in memory that the stored snapshot lacks means the
\* registry is dirty.
C4_UnsavedMeansDirty ==
    (~FlushInProgress /\ lock_user_structure = Free)
        => (\A r \in Range(users_by_token) : ToDict(r) \notin Stored => dirty)

\* C5: with a healthy sink and a save loop that keeps ticking, every record
\* whose register returned is eventually in the stored snapshot.
C5_RegisteredIsEventuallyStored ==
    \A u \in Users, k \in Tokens, c \in Chats :
        (\E i \in CallIds : calls[i].registered /\ RecordOf(i) = UserDict(u, k, c))
            ~> (ToDict(UserDict(u, k, c)) \in Stored)

C8_StopFlushesDirtyRegistry ==
    (main_pc = "exited" /\ saver_pc = "stopped" /\ dirty) => flush_after_stop

\* tokens of the records loaded when the token manager was created
BootTokens == {r.token : r \in Range(BootDatabase(boot_file).by_token)}

\* C9: the tokens generate_unused_token returns are pairwise distinct and none
\* is a token the registry held when the issuer was created.
C9_IssuedTokensAreUnused ==
    \A i \in CallIds :
        calls[i].issued =>
            /\ calls[i].token \notin BootTokens
            /\ \A j \in CallIds : (j # i /\ calls[j].issued) => calls[j].token # calls[i].token

\* C10: register for a user id that was registered when the call was made ends
\* in DuplicateUser, and the user's record stays the one and only record of
\* that user, with its token and address.
C10_SecondRegisterIsRefused ==
    \A i \in CallIds :
        (calls[i].op = "register" /\ IsUserDict(calls[i].seen) /\ Finished(i))
            => /\ calls[i].outcome = "DuplicateUser"
               /\ ~calls[i].registered
               /\ GetByUserId(users_by_user_id, calls[i].user_id) = calls[i].seen
               /\ {r \in Range(users_by_token) : r.user_id = calls[i].user_id}
                      = {calls[i].seen}

\* C10 happens: a second register of a user, with another token and another
\* address, has been refused.
C10_Witness ==
    \E i \in CallIds :
        /\ calls[i].op = "register" /\ IsUserDict(calls[i].seen)
        /\ calls[i].outcome = "DuplicateUser"
        /\ calls[i].token # calls[i].seen.token
        /\ calls[i].chat_id # calls[i].seen.chat_id
        /\ \E j \in CallIds : j < i /\ calls[j].registered /\ RecordOf(j) = calls[i].seen

\* the records of the registry when call i was made: those loaded at startup
\* and, of those with its user id or its token, the ones of the registrations
\* that had returned
HeldBefore(i) ==
    Range(BootDatabase(boot_file).by_token) \cup {RecordOf(j) : j \in calls[i].known}

\* no record has the user id of call i, and no other call is for that user id
NewUserId(i) ==
    /\ \A j \in CallIds : j # i => calls[j].user_id # calls[i].user_id
    /\ \A r \in HeldBefore(i) : r.user_id # calls[i].user_id

\* C11: register with a new user id and a token that a record of another user
\* held when the call was made ends in DuplicateToken, registers nothing, and
\* the token goes on resolving to the record of its first holder.
C11_DuplicateTokenIsRefused ==
    \A i \in CallIds :
        (calls[i].op = "register" /\ Finished(i) /\ NewUserId(i))
            => \A first \in HeldBefore(i) :
                  (first.token = calls[i].token /\ first.user_id # calls[i].user_id)
                      => /\ calls[i].outcome = "DuplicateToken"
                         /\ ~calls[i].registered
                         /\ GetUser(users_by_token, users_by_user_id, NoId, calls[i].token)
                                = first
                         /\ ~IsUserDict(GetByUserId(users_by_user_id, calls[i].user_id))

\* C11 happens: a register with the token of a record that an earlier call
\* registered, for a user id of no record, has been refused.
C11_Witness ==
    \E i \in CallIds : \E j \in calls[i].known :
        /\ calls[i].op = "register" /\ NewUserId(i)
        /\ calls[i].outcome = "DuplicateToken"
        /\ RecordOf(j).token = calls[i].token /\ RecordOf(j).user_id # calls[i].user_id
        /\ GetUser(users_by_token, users_by_user_id, NoId, calls[i].token) = RecordOf(j)

C14_ListingIsASnapshot ==
    \A i \in CallIds :
        (calls[i].op = "users" /\ Finished(i))
            => /\ calls[i].outcome = "done"
               /\ calls[i].out = calls[i].view

\* the records that were loaded at startup or that a call asked register to store
Registered ==
    Range(BootDatabase(boot_file).by_token)
        \cup {RecordOf(i) : i \in {j \in CallIds : calls[j].op = "register"}}

\* C15: the records get_user and get_users hand out are copies: an assignment
\* by the caller to a record it received changes nothing in the registry, which
\* goes on holding the records as they were loaded or registered.
C15_HandedOutRecordsAreCopies ==
    (\E i \in CallIds : calls[i].op \in {"edit_copy", "edit_listed"} /\ Finished(i))
        => Range(users_by_token) \cup Range(users_by_user_id) \subseteq Registered

\* two records of the list have the same user id or the same token
Collide(j) ==
    \E a, b \in 1..Len(j) : a < b /\ (j[a].user_id = j[b].user_id \/ j[a].token = j[b].token)

\* C16: loading a file in which two records collide on the user id or on the
\* token fails: a registry that was loaded comes from a file without
\* collisions, and each of its dicts holds the very records the other holds.
C16_CollidingRecordsFailTheLoad ==
    (main_pc = "serving" /\ boot_file.kind = "json")
        => /\ ~Collide(boot_file.data)
           /\ Range(users_by_token) = Range(users_by_user_id)

\* the records of a dict as (user id, token, chat id) triples, in no order
Triples(d) == {ToDict(d[i]) : i \in 1..Len(d)}

\* C17: when the server is started on the file that to_file wrote for the
\* registry x of the last run, the registry it loads lists the records of x,
\* no more and no fewer, holds them in both dicts, and is not dirty.
C17_FlushThenLoadRoundTrips ==
    [][(Restart /\ db_file = JsonFile(ToFileList(users_by_token)))
          => /\ Triples(users_by_token') = Triples(users_by_token)
             /\ Triples(users_by_user_id') = Triples(users_by_user_id)
             /\ Range(users_by_user_id') = Range(users_by_token')
             /\ dirty' = FALSE]_vars

\* C17 happens: the server runs on a registry loaded from a file that holds
\* two records, every record that a call registered among them.
C17_Witness ==
    /\ main_pc = "serving" /\ boot_file.kind = "json"
    /\ Len(users_by_token) = 2
    /\ \E i \in CallIds : calls[i].registered
    /\ \A i \in CallIds : calls[i].registered =>
           /\ ToDict(RecordOf(i)) \in Range(boot_file.data)
           /\ RecordOf(i) \in Range(users_by_token) \cap Range(users_by_user_id)

\* the record of call i is what call j asked for, by user id alone or by token alone
AskedFor(j, i) ==
    \/ calls[j].user_id = calls[i].user_id /\ calls[j].token = NoToken
    \/ calls[j].user_id = NoId /\ calls[j].token = calls[i].token

\* C18: a get_user or is_user_registered call made, by any thread, after a
\* register call returned, and asking for the record of that call by its user
\* id or by its token, finds it.
C18_RegisteredIsSeenAfterwards ==
    \A j \in CallIds : \A i \in calls[j].known :
        (Finished(j) /\ AskedFor(j, i))
            => /\ calls[j].op = "is_registered" => calls[j].outcome = "True"
               /\ calls[j].op = "get_user" => calls[j].r1 = RecordOf(i)

\* C18 happens: a record was registered, then looked up by its token and found.
C18_Witness ==
    \E j \in CallIds : \E i \in calls[j].known :
        /\ calls[j].op = "get_user" /\ calls[j].token = calls[i].token
        /\ calls[j].r1 = RecordOf(i)

\* some record has the user id u (if one is given) and the token k (if one is given)
Exists(u, k) ==
    \E r \in Range(users_by_token) \cup Range(users_by_user_id) :
        (u # NoId => r.user_id = u) /\ (k # NoToken => r.token = k)

\* C20: is_user_registered answers True exactly when a record has the user id
\* given, or the token given, or, both being given, when one record has both;
\* with neither given it fails with ValueError. (Answers given while a
\* register call is between its two dict writes are left out.)
C20_IsRegisteredAnswers ==
    [][\A t \in Workers :
          (pc[t] = "ir_check" /\ pc'[t] = "idle"
                /\ Range(users_by_token) = Range(users_by_user_id))
             => calls'[cur[t]].outcome =
                    IF Call(t).user_id = NoId /\ Call(t).token = NoToken
                    THEN "InvalidArgument"
                    ELSE Bool(Exists(Call(t).user_id, Call(t).token))]_vars

\* C20 happens: asked for a user id and a token that two different records
\* have, is_user_registered has answered False.
C20_Witness ==
    \E i \in CallIds :
        /\ calls[i].op = "is_registered" /\ calls[i].outcome = "False"
        /\ calls[i].user_id # NoId /\ calls[i].token # NoToken
        /\ Exists(calls[i].user_id, NoToken) /\ Exists(NoId, calls[i].token)
        /\ calls[i].known # {}

\* C19: while to_file writes to the file it holds no lock of the registry (it
\* held __lock_user_structure only to copy the records), so every step of a
\* register call under way can be taken: register does not wait for the write.
C19_DumpHoldsNoLock ==
    (Alive /\ saver_pc = "dump")
        => /\ Saver \notin {lock_user_structure, lock_is_user_registered, lock_register}
           /\ pc["w1"] # "idle" => ENABLED Register("w1")

\* C19 happens: to_file is writing a list that lacks a record, the register
\* call that stored that record after the list was copied having returned.
C19_Witness ==
    /\ Alive /\ saver_pc = "dump"
    /\ \E i \in CallIds :
           /\ calls[i].registered /\ Finished(i)
           /\ ToDict(RecordOf(i)) \notin Range(saver_l)

\* C21: get_user with neither selector fails with ValueError, and get_user
\* with a user id and a token does not return a record that has another token.
C21_ResolveTakesOneSelector ==
    \A i \in CallIds :
        (calls[i].op = "get_user" /\ Finished(i))
            => /\ (calls[i].user_id = NoId /\ calls[i].token = NoToken)
                      => calls[i].outcome = "InvalidArgument"
               /\ (calls[i].user_id # NoId /\ calls[i].token # NoToken /\ IsUserDict(calls[i].r1))
                      => calls[i].r1.token = calls[i].token

\* C22: a record that register stored stays as it was stored: after any calls
\* that follow, the user id maps to that record and the token maps to it.
C22_RecordsNeverChange ==
    \A i \in CallIds :
        (calls[i].op = "register" /\ calls[i].registered)
            => /\ GetByUserId(users_by_user_id, calls[i].user_id) = RecordOf(i)
               /\ GetByToken(users_by_token, calls[i].token) = RecordOf(i)

\* the call ended by raising
Failed(i) ==
    calls[i].outcome \in {"InvalidArgument", "DuplicateUser", "DuplicateToken", "JSONDecodeError"}

\* C23: when the last call made has ended in an error, the two dicts and the
\* dirty flag are what they were when the call was made.
C23_FailedCallsChangeNothing ==
    \A i \in CallIds :
        (i = Len(calls) /\ Failed(i)) => Registry = calls[i].before

\* C26: a KuriDatabase just constructed holds no record: get_user on it
\* returns None, whatever was registered in or loaded into other instances.
C26_InstancesAreIndependent ==
    \A i \in CallIds :
        (calls[i].op = "get_user" /\ calls[i].self = "KuriDatabase()" /\ Finished(i))
            => calls[i].r1 = None

\* C28: a tick of the save loop that finds the registry not dirty goes back to
\* the head of the loop without opening the file: from the loop head to the
\* test and back the file, the two dicts and the dirty flag are left as they
\* are, and the file changes only in open() and in the dump of to_file.
C28_CleanTickWritesNothing ==
    [][ /\ (saver_pc = "is_dirty" /\ ~dirty /\ saver_pc' # saver_pc)
              => (saver_pc' = "while" /\ UNCHANGED <<db_file, users_by_token, users_by_user_id, dirty>>)
        /\ (saver_pc \in {"while", "wait"} /\ saver_pc' # saver_pc)
              => UNCHANGED <<db_file, users_by_token, users_by_user_id, dirty>>
        /\ db_file' # db_file => saver_pc \in {"open", "dump"}
      ]_vars

\* C28 happens: the records registered in this run have been saved, and a
\* later tick is at its test with the registry not dirty.
C28_Witness ==
    /\ Alive /\ saver_pc = "is_dirty" /\ ~dirty
    /\ db_file = JsonFile(ToFileList(users_by_token))
    /\ \E i \in CallIds : calls[i].registered

\* C27: a /register of a user who was registered when the event came mints no
\* token, stores nothing, leaves the dirty flag alone and replies with the
\* token of the stored record; and all the /register events of one user that
\* were replied to were replied to with the same token.
C27_RegisteredUserGetsStoredToken ==
    [][ /\ \A t \in Workers :
              (pc[t] # "idle" /\ pc'[t] # pc[t] /\ Call(t).op = "handler" /\ IsUserDict(Call(t).seen))
                 => /\ UNCHANGED <<users_by_token, users_by_user_id, dirty, present_tokens>>
                    /\ pc'[t] \in {"h_reply", "idle"}
                    /\ pc'[t] = "idle"
                          => /\ calls'[cur[t]].outcome = "replied"
                             /\ calls'[cur[t]].token = Call(t).seen.token
                             /\ ~calls'[cur[t]].issued /\ ~calls'[cur[t]].registered
        /\ \A i, j \in 1..Len(calls') :
              (/\ calls'[i].op = "handler" /\ calls'[j].op = "handler"
               /\ calls'[i].user_id = calls'[j].user_id
               /\ calls'[i].outcome = "replied" /\ calls'[j].outcome = "replied")
                 => calls'[i].token = calls'[j].token
      ]_vars

\* C27 happens: a /register stored a record for a user, and a later /register
\* of that user was replied to with the token of that record, none being minted.
C27_Witness ==
    \E i, j \in CallIds :
        /\ calls[i].op = "handler" /\ calls[i].registered /\ calls[i].outcome = "replied"
        /\ calls[j].op = "handler" /\ calls[j].seen = RecordOf(i)
        /\ calls[j].outcome = "replied" /\ ~calls[j].issued
        /\ calls[j].token = calls[i].token

\* C29: of two /register events for one user who was not registered when
\* either came, both end with a reply that carries the token of the one record
\* stored for the user; neither ends in 'Given user is already registered.'
\* (Events that were issued a token already in use are left out.)
C29_ConcurrentRegisterEventsBothReply ==
    \A i, j \in CallIds :
        (/\ i # j /\ calls[i].op = "handler" /\ calls[j].op = "handler"
         /\ calls[i].user_id = calls[j].user_id
         /\ ~IsUserDict(calls[i].seen) /\ ~IsUserDict(calls[j].seen)
         /\ Finished(i) /\ Finished(j)
         /\ calls[i].outcome # "DuplicateToken" /\ calls[j].outcome # "DuplicateToken")
            => /\ calls[i].outcome = "replied"
               /\ calls[i].token = GetByUserId(users_by_user_id, calls[i].user_id).token

Threads == Workers \cup {Saver}

\* the thread is in a call and cannot take a step
Blocked(t) ==
    IF t = Saver THEN ~ENABLED Tick
    ELSE pc[t] # "idle" /\ ~ENABLED WorkerStep(t)

\* the holder of the lock the thread is about to acquire (Free: no lock, or a free one)
Wanted(t) ==
    IF t = Saver THEN (IF saver_pc = "to_file" THEN lock_user_structure ELSE Free)
    ELSE IF pc[t] = "reg_lock" THEN lock_register
    ELSE IF pc[t] \in {"reg_user_lock", "reg_token_lock", "ir_lock"} THEN lock_is_user_registered
    ELSE IF pc[t] \in {"reg_new", "u_lock"} THEN lock_user_structure
    ELSE IF pc[t] = "gen_lock" THEN token_generating_lock
    ELSE Free

\* C30: no set of threads waits in a circle.  A thread that cannot step is
\* waiting for a lock that another thread holds, and following holders from
\* it leads to a thread that can step; a thread that is not in a call holds no
\* lock, whether its calls returned or raised, and the save thread holds one
\* only while it copies the records.
C30_NoDeadlock ==
    /\ \A t \in Threads :
          Blocked(t)
             => /\ Wanted(t) \in Threads \ {t}
                /\ \/ ~Blocked(Wanted(t))
                   \/ (Wanted(Wanted(t)) \in Threads \ {t} /\ ~Blocked(Wanted(Wanted(t))))
    /\ \A t \in Workers :
          pc[t] = "idle"
             => t \notin {lock_user_structure, lock_is_user_registered, lock_register,
                          token_generating_lock}
    /\ lock_user_structure = Saver => saver_pc = "snapshot"

\* C30 happens: a thread inside register, holding __lock_register, waits for a
\* lock that the other worker holds.
C30_Witness ==
    \E t \in Workers :
        Blocked(t) /\ lock_register = t /\ Wanted(t) \in Workers \ {t}

\* the parsing of the command line is over
CliParsed == cli.pc \in {"main", "send", "exited"}

\* C24: for a command line `--token <token> --message <message>`, with or
\* without `--api-root <api_root>` in front, the parser ends valid with
\* api_root, token and message set to the values given, and the script does
\* not print the help menu.
C24_UsageLineIsAccepted ==
    \A a, k, m \in {UrlWord, TextWord} :
        /\ (CliParsed /\ cli.args = <<SwitchToken, k, SwitchMessage, m>>)
              => /\ cli.valid /\ cli.api_root = <<>> /\ cli.token = k /\ cli.message = m
                 /\ cli.printed # "help"
        /\ (CliParsed /\ cli.args = <<SwitchApiRoot, a, SwitchToken, k, SwitchMessage, m>>)
              => /\ cli.valid /\ cli.api_root = a /\ cli.token = k /\ cli.message = m
                 /\ cli.printed # "help"

\* the string is http:// followed by something
FullUrl(s) == Len(s) > Len(HttpPrefix) /\ SubSeq(s, 1, Len(HttpPrefix)) = HttpPrefix

\* C25: KimikuriClient(token) with no api_root is constructed, with the
\* official API root; KimikuriClient(token, api_root) with a full URL is
\* constructed with that URL, a slash added when it does not end in one.
C25_ClientConstruction ==
    client.cls # "NoneType"
        => /\ client.given = NoStr
                 => (client.cls = "KimikuriClient" /\ client.api_root = OfficialApiRoot)
           /\ (client.given.cls = "str" /\ FullUrl(client.given.str))
                 => /\ client.cls = "KimikuriClient"
                    /\ client.api_root = IF EndsWithSlash(client.given.str) THEN client.given.str
                                          ELSE client.given.str \o <<"/">>

\* C31: the list to_file copies is the registry at the instant of the copy:
\* its records are those of the token dict and those of the user-id dict, the
\* same ones; it holds the record of every register call that has returned;
\* no two of its records share a user id or a token; and what json.dump
\* writes is that list.
C31_SnapshotIsPointInTime ==
    [][ /\ (saver_pc = "snapshot" /\ saver_pc' = "dump")
              => /\ Range(saver_l') = {ToDict(r) : r \in Range(users_by_token)}
                 /\ Range(saver_l') = {ToDict(r) : r \in Range(users_by_user_id)}
                 /\ \A i \in CallIds : calls[i].registered => ToDict(RecordOf(i)) \in Range(saver_l')
                 /\ \A m, n \in 1..Len(saver_l') :
                        (saver_l'[m].user_id = saver_l'[n].user_id \/ saver_l'[m].token = saver_l'[n].token)
                           => m = n
        /\ (saver_pc = "dump" /\ saver_pc' = "clear_dirty") => db_file' = JsonFile(saver_l)
      ]_vars

\* C31 happens: a list with a record registered in this run has been copied
\* while another register call was under way, and has been written.
C31_Witness ==
    /\ saver_pc = "clear_dirty" /\ db_file = JsonFile(saver_l)
    /\ \E i \in CallIds : calls[i].registered /\ ToDict(RecordOf(i)) \in Range(saver_l)
    /\ \E i \in CallIds : calls[i].registered /\ ToDict(RecordOf(i)) \notin Range(saver_l)

\* C32: once stop() has cleared kimikuri_running and set the event, the save
\* loop ends: it begins no new iteration (at the loop head it leaves the loop,
\* and it stays out), so at most the iteration under way is completed, and
\* the thread ends, by leaving the loop or with the process.
C32_StopEndsTheSaveLoop ==
    /\ [][ /\ (~kimikuri_running /\ saver_pc = "while" /\ saver_pc' # saver_pc)
                 => saver_pc' = "stopped"
           /\ saver_pc = "stopped" => saver_pc' = "stopped"
         ]_vars
    /\ (~kimikuri_running /\ interrupt_event) ~> (saver_pc = "stopped" \/ ~Alive)

\* C32 happens: stop() arrived during an iteration, the loop went on to flush
\* after the signal, and it has left the loop while the process still lives.
C32_Witness ==
    /\ Alive /\ ~kimikuri_running /\ interrupt_event
    /\ saver_pc = "stopped" /\ flush_after_stop

====
